---- MODULE Spec2Model ----
(***************************************************************************)
(* A model of skxray/io/avizo_io.py, the AmiraMesh reader: the HxByteRLE   *)
(* decoder decode_rle, the header reader _read_amira, the metadata         *)
(* extractor _create_md_dict and the payload decoder _amira_data_to_numpy. *)
(* Each function is a state machine of its own (SpecRle, SpecRead, SpecMd, *)
(* SpecNumpy); Spec runs any one of them.  Python sequences are 0-based,   *)
(* the sequences below are 1-based: the code's d[filepos] is d[filepos+1]. *)
(***************************************************************************)
EXTENDS Integers, Sequences, FiniteSets, TLC

VARIABLES
    call,               \* which function of the module is being run
    d,                  \* decode_rle: the compressed bytes
    uncompressed_size,  \* decode_rle: the requested output size
    rval,               \* decode_rle: the output buffer (np.empty: arbitrary content)
    bytes_read,         \* decode_rle: the output cursor
    filepos,            \* decode_rle: the input cursor
    rle_pc,             \* decode_rle: "idle" | "loop" | "returned" | "raised"
    rle_exc,            \* decode_rle: the exception raised, or "none"
    input_file,         \* _read_amira: the lines of the file
    file_pos,           \* _read_amira: the number of lines readline() has consumed
    am_header,          \* _read_amira: the header accumulator
    am_data,            \* _read_amira: the payload (the lines that remain)
    read_pc,            \* _read_amira: "idle" | "loop" | "returned" | "raised"
    clean_header,       \* _create_md_dict: the tokenized header
    md_dict,            \* _create_md_dict: the metadata record being built
    line_no,            \* _create_md_dict: lines of the for loop already processed
    md_pc,              \* _create_md_dict: "idle" | "first" | "loop" | "returned" | "raised"
    md_exc,             \* _create_md_dict: the exception raised, or "none"
    payload,            \* _amira_data_to_numpy: am_data, a byte sequence
    header_dict,        \* _amira_data_to_numpy: the metadata record
    flip_z,             \* _amira_data_to_numpy: the flip_z argument
    flt_values,         \* _amira_data_to_numpy: the values decoded, before the resize
    output,             \* _amira_data_to_numpy: the returned array, output[k][j][i]
    np_pc,              \* _amira_data_to_numpy: "idle" | "call" | "returned" | "raised"
    np_exc              \* _amira_data_to_numpy: the exception raised, or "none"

rleVars == <<d, uncompressed_size, rval, bytes_read, filepos, rle_pc, rle_exc>>
readVars == <<input_file, file_pos, am_header, am_data, read_pc>>
mdVars == <<clean_header, md_dict, line_no, md_pc, md_exc>>
npVars == <<payload, header_dict, flip_z, flt_values, output, np_pc, np_exc>>
vars == <<call, rleVars, readVars, mdVars, npVars>>

----------------------------------------------------------------------------
(* Bounds of the model.                                                    *)

MaxLen == 4
MaxSize == 3
MaxFileLines == 3
MaxEofReads == 2
MaxTail == 3
MaxPayload == 4
MaxDim == 2

Min(a, b) == IF a < b THEN a ELSE b

SeqsUpTo(S, n) == UNION {[1..k -> S] : k \in 0..n}

(* The byte values decode_rle's inputs are drawn from: the invalid control *)
(* byte 0, repeat counts 1..3 (also used as data), literal headers 0x81    *)
(* and 0x82.                                                               *)
RleBytes == {0, 1, 2, 3, 129, 130}

(* What np.empty may leave in a position that is never written.            *)
Garbage == {85, 170}

----------------------------------------------------------------------------
(* The variables of the functions that are not running.                    *)

RleIdle ==
    /\ d = << >>
    /\ uncompressed_size = 0
    /\ rval = << >>
    /\ bytes_read = 0
    /\ filepos = 0
    /\ rle_pc = "idle"
    /\ rle_exc = "none"

ReadIdle ==
    /\ input_file = << >>
    /\ file_pos = 0
    /\ am_header = << >>
    /\ am_data = << >>
    /\ read_pc = "idle"

MdIdle ==
    /\ clean_header = << >>
    /\ md_dict = << >>
    /\ line_no = 0
    /\ md_pc = "idle"
    /\ md_exc = "none"

NumpyIdle ==
    /\ payload = << >>
    /\ header_dict = << >>
    /\ flip_z = TRUE
    /\ flt_values = << >>
    /\ output = << >>
    /\ np_pc = "idle"
    /\ np_exc = "none"

----------------------------------------------------------------------------
(* decode_rle                                                               *)

IsZeroControlUnchecked(x) == FALSE

IsZeroControl(x) == x = 0

IsLiteral(x) == x > 127

LiteralLenUnmasked(x) == x

(* x & 0x7f                                                                 *)
LiteralLen(x) == x % 128

(* s[a:b] of Python: clipped to the sequence, never an error.              *)
PySlice(s, a, b) ==
    LET lo == Min(a, Len(s))
        hi == Min(b, Len(s))
    IN  IF hi <= lo THEN << >> ELSE SubSeq(s, lo + 1, hi)

Repeat(v, n) == [i \in 1..n |-> v]

(* rval[a:a+len(src)] = src: the target slice is clipped to rval; numpy    *)
(* accepts the assignment when the shapes agree or src has one element.    *)
SliceAssignOk(buf, a, src) ==
    LET room == Min(a + Len(src), Len(buf)) - Min(a, Len(buf))
    IN  Len(src) = room \/ Len(src) = 1

SliceAssign(buf, a, src) ==
    [i \in 1..Len(buf) |->
        IF i > a /\ i <= a + Len(src) THEN src[i - a] ELSE buf[i]]

RleRaised(st, exc) == [st EXCEPT !.pc = "raised", !.exc = exc]

RleStore(st, mybytes, newpos) ==
    IF SliceAssignOk(st.rval, st.bytes_read, mybytes)
    THEN [st EXCEPT !.rval = SliceAssign(st.rval, st.bytes_read, mybytes),
                    !.bytes_read = st.bytes_read + Len(mybytes),
                    !.filepos = newpos]
    ELSE RleRaised(st, "ValueError: could not broadcast")

(* One pass through the body of the while loop, on the locals st.          *)
RleBody(dd, st) ==
    IF st.filepos >= Len(dd)
    THEN RleRaised(st, "IndexError")
    ELSE LET x == dd[st.filepos + 1]
             fp == st.filepos + 1
         IN  IF IsZeroControl(x)
             THEN RleRaised(st, "ValueError: x is 0")
             ELSE IF IsLiteral(x)
             THEN RleStore(st, PySlice(dd, fp, fp + LiteralLen(x)), fp + LiteralLen(x))
             ELSE IF fp >= Len(dd)
             THEN RleRaised(st, "IndexError")
             ELSE RleStore(st, Repeat(dd[fp + 1], x), fp + 1)

RleLocals == [rval |-> rval, bytes_read |-> bytes_read, filepos |-> filepos,
              pc |-> rle_pc, exc |-> rle_exc]

RleInit ==
    /\ call = "decode_rle"
    /\ d \in SeqsUpTo(RleBytes, MaxLen)
    /\ uncompressed_size \in 0..MaxSize
    /\ rval \in [1..uncompressed_size -> Garbage]
    /\ bytes_read = 0
    /\ filepos = 0
    /\ rle_pc = "loop"
    /\ rle_exc = "none"
    /\ ReadIdle /\ MdIdle /\ NumpyIdle

RleIteration ==
    /\ call = "decode_rle"
    /\ rle_pc = "loop"
    /\ bytes_read < uncompressed_size
    /\ LET st == RleBody(d, RleLocals)
       IN  /\ rval' = st.rval
           /\ bytes_read' = st.bytes_read
           /\ filepos' = st.filepos
           /\ rle_pc' = st.pc
           /\ rle_exc' = st.exc
    /\ UNCHANGED <<call, d, uncompressed_size, readVars, mdVars, npVars>>

RleReturn ==
    /\ call = "decode_rle"
    /\ rle_pc = "loop"
    /\ bytes_read >= uncompressed_size
    /\ rle_pc' = "returned"
    /\ UNCHANGED <<call, d, uncompressed_size, rval, bytes_read, filepos, rle_exc,
                   readVars, mdVars, npVars>>

RleNext == RleIteration \/ RleReturn

SpecRle == RleInit /\ [][RleNext]_vars

(* decode_rle run to its end from the locals st, as _amira_data_to_numpy   *)
(* calls it.  Every pass moves filepos forward, so the loop ends.          *)
RECURSIVE RleRun(_, _, _)
RleRun(dd, size, st) ==
    IF st.pc # "loop" THEN st
    ELSE IF st.bytes_read >= size THEN [st EXCEPT !.pc = "returned"]
    ELSE RleRun(dd, size, RleBody(dd, st))

----------------------------------------------------------------------------
(* _read_amira                                                              *)

Sentinel == "# Data section follows\n"

(* The lines a file is made of.  A line without its newline can only be    *)
(* the last line of a file; readline() returns "" at the end of the file.  *)
FullLines == {Sentinel, "# AmiraMesh BINARY-LITTLE-ENDIAN 2.1\n", "\n"}
LastLines == {"# Data section follows", "@1"}
Eof == ""

IsFile(f) ==
    \A i \in 1..Len(f) : f[i] \in LastLines => i = Len(f)

(* input_file.readline() after n lines have been consumed.                 *)
ReadLine(f, n) == IF n < Len(f) THEN f[n + 1] ELSE Eof

(* input_file.read() after n lines have been consumed.                     *)
ReadRest(f, n) == IF n < Len(f) THEN SubSeq(f, n + 1, Len(f)) ELSE << >>

ReadInit ==
    /\ call = "_read_amira"
    /\ input_file \in {f \in SeqsUpTo(FullLines \cup LastLines, MaxFileLines) : IsFile(f)}
    /\ file_pos = 0
    /\ am_header = << >>
    /\ am_data = << >>
    /\ read_pc = "loop"
    /\ RleIdle /\ MdIdle /\ NumpyIdle

(* One pass through the while True loop; on the sentinel, the break, the   *)
(* read of the payload and the return.  The header grows without limit at  *)
(* the end of the file: the model stops it after MaxEofReads empty reads.  *)
ReadIteration ==
    /\ call = "_read_amira"
    /\ read_pc = "loop"
    /\ Len(am_header) < Len(input_file) + MaxEofReads
    /\ LET line == ReadLine(input_file, file_pos)
           pos == Min(file_pos + 1, Len(input_file))
       IN  /\ am_header' = Append(am_header, line)
           /\ IF line = Sentinel
              THEN /\ file_pos' = Min(pos + 1, Len(input_file))
                   /\ am_data' = ReadRest(input_file, pos + 1)
                   /\ read_pc' = "returned"
              ELSE /\ file_pos' = pos
                   /\ UNCHANGED <<am_data, read_pc>>
    /\ UNCHANGED <<call, input_file, rleVars, mdVars, npVars>>

ReadNext == ReadIteration

SpecRead == ReadInit /\ [][ReadNext]_vars

----------------------------------------------------------------------------
(* _create_md_dict                                                          *)

(* int() and float() on the tokens the headers below are made of: a token  *)
(* outside the table raises ValueError.  Floats are kept exactly, as       *)
(* hundredths; the rounding of binary floating point is not modelled.      *)
IntTable == ("1" :> 1) @@ ("2" :> 2) @@ ("3" :> 3)

FloatTable ==
    ("0" :> 0) @@ ("0.99" :> 99) @@ ("1" :> 100) @@ ("1.01" :> 101)

(* The first lines and the other lines headers are drawn from.             *)
FirstLines ==
    { <<"#", "AmiraMesh", "BINARY-LITTLE-ENDIAN", "2.1">>,
      <<"#", "AmiraMesh", "3D", "BINARY", "2.0">> }

ShortFirstLines == { <<"#", "AmiraMesh">>, <<"#", "AmiraMesh", "3D", "ASCII">> }

TailLines ==
    { <<"define", "Lattice", "2", "2", "2">>,
      <<"define", "Lattice", "1", "2", "2">>,
      <<"define", "Lattice", "3", "2", "1">>,
      <<"Content", "2x2x2", "byte", "uniform", "coordinates">>,
      <<"CoordType", "uniform">>,
      <<"BoundingBox", "0", "1", "0", "1", "0", "1">>,
      <<"BoundingBox", "0", "1", "0", "0.99", "0", "1">>,
      <<"BoundingBox", "0", "1", "0", "1", "0", "1.01">>,
      <<"Units", "{", "mm", "}">>,
      <<"Units", "{">>,
      <<"Coordinates", "m">>,
      <<"Lattice", "{", "byte", "Data", "}", "@1">>,
      <<"Lattice", "{", "byte", "Labels", "}", "@1(HxByteRLE3)">> }

(* kw in header_line, header_line.index(kw) (0-based), header_line[i].     *)
Has(line, kw) == \E i \in 1..Len(line) : line[i] = kw

Index(line, kw) ==
    CHOOSE i \in 0..(Len(line) - 1) :
        /\ line[i + 1] = kw
        /\ \A j \in 0..(i - 1) : line[j + 1] # kw

InRange(line, i) == i < Len(line)

(* The exception of the first of table[line[i]], i in idxs, to fail, in    *)
(* the order the code evaluates them; "none" when all succeed.             *)
ParseError(line, idxs, table) ==
    LET bad == {k \in 1..Len(idxs) :
                    \/ ~InRange(line, idxs[k])
                    \/ line[idxs[k] + 1] \notin DOMAIN table}
    IN  IF bad = {} THEN "none"
        ELSE LET k == CHOOSE m \in bad : \A n \in bad : m <= n
             IN  IF ~InRange(line, idxs[k]) THEN "IndexError" ELSE "ValueError"

Put(md, key, value) ==
    [k \in DOMAIN md \cup {key} |-> IF k = key THEN value ELSE md[k]]

MdOk(md) == [pc |-> "loop", exc |-> "none", md |-> md]

MdRaised(exc) == [pc |-> "raised", exc |-> exc, md |-> << >>]

(* The dictionary literal of md_dict and the "3D" shift.                   *)
MdFirstLine(header) ==
    IF Len(header) = 0 \/ Len(header[1]) < 4
    THEN MdRaised("IndexError")
    ELSE LET first == header[1] IN
         IF first[3] = "3D"
         THEN IF Len(first) < 5
              THEN MdRaised("IndexError")
              ELSE MdOk([software_src |-> first[2],
                         data_format |-> first[4],
                         data_format_version |-> first[5]])
         ELSE MdOk([software_src |-> first[2],
                    data_format |-> first[3],
                    data_format_version |-> first[4]])

(* A voxel spacing is the fraction <<numerator, denominator>>, in          *)
(* hundredths, with a positive denominator.                                *)
Spacing(lo, hi, dim) == IF dim > 1 THEN <<hi - lo, dim - 1>> ELSE <<0, 1>>

IsoLow == 99
IsoHigh == 101

(* a / b > IsoLow / 100 and a / b < IsoHigh / 100, for fractions a and b   *)
(* with b # 0.                                                              *)
RatioAboveLow(a, b) ==
    LET n == a[1] * b[2]
        m == a[2] * b[1]
    IN  IF m > 0 THEN 100 * n > IsoLow * m ELSE 100 * n < IsoLow * m

RatioBelowHigh(a, b) ==
    LET n == a[1] * b[2]
        m == a[2] * b[1]
    IN  IF m > 0 THEN 100 * n < IsoHigh * m ELSE 100 * n > IsoHigh * m

IsIsotropic(res) ==
    /\ RatioAboveLow(res[2], res[1])
    /\ RatioAboveLow(res[3], res[1])
    /\ RatioBelowHigh(res[2], res[1])
    /\ RatioBelowHigh(res[3], res[1])

(* The voxel resolution calculation and the isotropy determination.  An    *)
(* isotropic zyx_value is the one-element tuple of the x spacing.          *)
MdResolution(md, bbox) ==
    IF "array_dimensions" \notin DOMAIN md
    THEN MdRaised("KeyError")
    ELSE LET dims == md["array_dimensions"]
             res == << Spacing(bbox.x_min, bbox.x_max, dims.x_dimension),
                       Spacing(bbox.y_min, bbox.y_max, dims.y_dimension),
                       Spacing(bbox.z_min, bbox.z_max, dims.z_dimension) >>
         IN  IF res[1][1] = 0
             THEN MdRaised("ZeroDivisionError")
             ELSE IF IsIsotropic(res)
             THEN MdOk(Put(Put(md, "bounding_box", bbox), "resolution",
                           [zyx_value |-> <<res[1]>>, type |-> "isotropic"]))
             ELSE MdOk(Put(Put(md, "bounding_box", bbox), "resolution",
                           [zyx_value |-> <<res[3], res[2], res[1]>>,
                            type |-> "anisotropic"]))

MdDefine(md, line) ==
    LET at == Index(line, "define")
        err == ParseError(line, <<at + 2, at + 3, at + 4>>, IntTable)
    IN  IF err # "none" THEN MdRaised(err)
        ELSE MdOk(Put(md, "array_dimensions",
                      [x_dimension |-> IntTable[line[at + 3]],
                       y_dimension |-> IntTable[line[at + 4]],
                       z_dimension |-> IntTable[line[at + 5]]]))

(* md_dict[key] = header_line[header_line.index(kw) + offset]              *)
MdString(md, line, kw, offset, key) ==
    LET at == Index(line, kw) + offset
    IN  IF InRange(line, at) THEN MdOk(Put(md, key, line[at + 1]))
        ELSE MdRaised("IndexError")

MdBoundingBox(md, line) ==
    LET at == Index(line, "BoundingBox")
        err == ParseError(line,
                   <<at + 1, at + 2, at + 3, at + 4, at + 5, at + 6>>, FloatTable)
    IN  IF err # "none" THEN MdRaised(err)
        ELSE MdResolution(md, [x_min |-> FloatTable[line[at + 2]],
                               x_max |-> FloatTable[line[at + 3]],
                               y_min |-> FloatTable[line[at + 4]],
                               y_max |-> FloatTable[line[at + 5]],
                               z_min |-> FloatTable[line[at + 6]],
                               z_max |-> FloatTable[line[at + 7]]])

UnitsKeyPasted == "coordinates"

UnitsKey == "units"

MdUnits(md, line) ==
    LET at == Index(line, "Units") + 2
    IN  IF InRange(line, at) THEN MdOk(Put(md, UnitsKey, line[at + 1]))
        ELSE MdOk(Put(md, UnitsKey, "pixels"))

Usual == <<"Lattice", "{", "byte", "Data", "}", "@1">>

MdLattice(md, line) ==
    IF Len(line) < Len(Usual)
    THEN MdRaised("IndexError")
    ELSE IF \A i \in 1..Len(Usual) : Usual[i] = line[i]
    THEN MdOk(Put(md, "encoding", "raw"))
    ELSE IF line[2] = "{" /\ line[3] = "byte" /\ line[4] = "Labels" /\ line[5] = "}"
    THEN MdOk(Put(md, "encoding", line[6]))
    ELSE MdRaised("AssertionError")

(* The body of the for loop: the if/elif chain on one header line.         *)
MdProcessLine(md, line) ==
    IF Has(line, "define") THEN MdDefine(md, line)
    ELSE IF Has(line, "Content") THEN MdString(md, line, "Content", 2, "data_type")
    ELSE IF Has(line, "CoordType") THEN MdString(md, line, "CoordType", 1, "coord_type")
    ELSE IF Has(line, "BoundingBox") THEN MdBoundingBox(md, line)
    ELSE IF Has(line, "Units") THEN MdUnits(md, line)
    ELSE IF Has(line, "Coordinates")
    THEN MdString(md, line, "Coordinates", 1, "coordinates")
    ELSE IF Len(line) >= 1 /\ line[1] = "Lattice" THEN MdLattice(md, line)
    ELSE MdOk(md)

MdInit ==
    /\ call = "_create_md_dict"
    /\ clean_header \in
           {<< >>} \cup {<<f>> : f \in ShortFirstLines}
               \cup {<<f>> \o t : f \in FirstLines, t \in SeqsUpTo(TailLines, MaxTail)}
    /\ md_dict = << >>
    /\ line_no = 0
    /\ md_pc = "first"
    /\ md_exc = "none"
    /\ RleIdle /\ ReadIdle /\ NumpyIdle

MdBegin ==
    /\ call = "_create_md_dict"
    /\ md_pc = "first"
    /\ LET r == MdFirstLine(clean_header)
       IN  /\ md_pc' = r.pc
           /\ md_exc' = r.exc
           /\ md_dict' = r.md
    /\ UNCHANGED <<call, clean_header, line_no, rleVars, readVars, npVars>>

MdLine ==
    /\ call = "_create_md_dict"
    /\ md_pc = "loop"
    /\ line_no < Len(clean_header)
    /\ LET r == MdProcessLine(md_dict, clean_header[line_no + 1])
       IN  /\ md_pc' = r.pc
           /\ md_exc' = r.exc
           /\ md_dict' = r.md
           /\ line_no' = IF r.pc = "loop" THEN line_no + 1 ELSE line_no
    /\ UNCHANGED <<call, clean_header, rleVars, readVars, npVars>>

MdReturn ==
    /\ call = "_create_md_dict"
    /\ md_pc = "loop"
    /\ line_no >= Len(clean_header)
    /\ md_pc' = "returned"
    /\ UNCHANGED <<call, clean_header, md_dict, line_no, md_exc,
                   rleVars, readVars, npVars>>

MdNext == MdBegin \/ MdLine \/ MdReturn

SpecMd == MdInit /\ [][MdNext]_vars

(* _create_md_dict run to its end on a header: the outcome of the call.    *)
RECURSIVE MdLoop(_, _, _)
MdLoop(header, n, r) ==
    IF r.pc = "raised" THEN r
    ELSE IF n >= Len(header) THEN [r EXCEPT !.pc = "returned"]
    ELSE MdLoop(header, n + 1, MdProcessLine(r.md, header[n + 1]))

CreateMdDict(header) == MdLoop(header, 0, MdFirstLine(header))

----------------------------------------------------------------------------
(* _amira_data_to_numpy                                                     *)

Newline == 10
Space == 32
Digits == 48..57

(* The bytes payloads are drawn from: a repeat count and data byte (1), a  *)
(* newline, a space, the digit "1", and a byte with the high bit set       *)
(* (0x81, an RLE literal header).                                          *)
PayloadBytes == {1, Newline, Space, 49, 129}

DataFormats == {"BINARY-LITTLE-ENDIAN", "BINARY", "ASCII", "AVS"}
DataTypes == {"float", "short", "byte"}
Encodings == {"raw", "@1(HxByteRLE3)", "@1(HxByteRLE,4)", "@1"}

am_dtype_dict ==
    ("float" :> "f4") @@ ("short" :> "h4") @@ ("ushort" :> "H4") @@ ("byte" :> "b")

(* The data types numpy makes of the strings of am_dtype_dict: "f4" is a   *)
(* 4-byte float and "b" a signed 1-byte integer; "h4" and "H4" are not     *)
(* understood (TypeError).                                                 *)
NumpyDtypes ==
    ("f4" :> [itemsize |-> 4, kind |-> "float"])
        @@ ("b" :> [itemsize |-> 1, kind |-> "int8"])

Uint8 == [itemsize |-> 1, kind |-> "uint8"]

(* The group of the RLE descriptor the regular expression matches, as an   *)
(* integer; a descriptor outside the table does not match.                 *)
RleDescriptors == ("@1(HxByteRLE3)" :> 3) @@ ("@1(HxByteRLE,4)" :> 4)

(* am_data.strip('\n'): newlines off both ends.                            *)
StripNewlines(s) ==
    LET keep == {i \in 1..Len(s) : s[i] # Newline}
    IN  IF keep = {} THEN << >>
        ELSE SubSeq(s, CHOOSE i \in keep : \A j \in keep : i <= j,
                       CHOOSE i \in keep : \A j \in keep : i >= j)

(* am_data.translate(None, '\n'): every newline deleted.                   *)
RECURSIVE DeleteNewlines(_)
DeleteNewlines(s) ==
    IF s = << >> THEN << >>
    ELSE IF Head(s) = Newline THEN DeleteNewlines(Tail(s))
    ELSE <<Head(s)>> \o DeleteNewlines(Tail(s))

(* s.split(" "): the pieces between single spaces, empty ones included.    *)
RECURSIVE SplitOnSpace(_)
SplitOnSpace(s) ==
    IF \A i \in 1..Len(s) : s[i] # Space THEN <<s>>
    ELSE LET at == CHOOSE i \in 1..Len(s) :
                       s[i] = Space /\ \A j \in 1..(i - 1) : s[j] # Space
         IN  <<SubSeq(s, 1, at - 1)>> \o SplitOnSpace(SubSeq(s, at + 1, Len(s)))

(* string_list[0:(len(string_list)-2)]                                     *)
DropLastTwo(l) == IF Len(l) <= 2 THEN << >> ELSE SubSeq(l, 1, Len(l) - 2)

IsNumber(tok) == tok # << >> /\ \A i \in 1..Len(tok) : tok[i] \in Digits

RECURSIVE Decimal(_)
Decimal(tok) ==
    IF tok = << >> THEN 0
    ELSE 10 * Decimal(SubSeq(tok, 1, Len(tok) - 1)) + (tok[Len(tok)] - 48)

(* One value of the data type from its bytes, least significant first:    *)
(* "uint8" is the byte itself, "int8" the byte in two's complement.  A     *)
(* float stands as its 32-bit pattern, read as a two's complement integer. *)
Signed(b) == IF b > 127 THEN b - 256 ELSE b

RECURSIVE LittleEndian(_)
LittleEndian(bytes) ==
    IF Len(bytes) = 1 THEN Signed(bytes[1])
    ELSE Head(bytes) + 256 * LittleEndian(Tail(bytes))

DecodeValue(dtype, bytes) ==
    IF dtype.kind = "uint8" THEN bytes[1] ELSE LittleEndian(bytes)

NpOk(values) == [pc |-> "ok", exc |-> "none", values |-> values]

NpRaised(exc) == [pc |-> "raised", exc |-> exc, values |-> << >>]

(* np.fromstring(s, dtype)                                                  *)
FromString(s, dtype) ==
    IF Len(s) % dtype.itemsize # 0
    THEN NpRaised("ValueError: string size must be a multiple of element size")
    ELSE NpOk([n \in 1..(Len(s) \div dtype.itemsize) |->
                  DecodeValue(dtype,
                      SubSeq(s, (n - 1) * dtype.itemsize + 1, n * dtype.itemsize))])

(* The branches on data_format, up to the flat array flt_values.  g is     *)
(* what np.empty leaves in decode_rle's buffer.                            *)
NpLittleEndian(am, hd) ==
    IF hd.encoding # "raw" THEN NpRaised("AssertionError")
    ELSE IF hd.data_type \notin DOMAIN am_dtype_dict THEN NpRaised("KeyError")
    ELSE IF am_dtype_dict[hd.data_type] \notin DOMAIN NumpyDtypes
    THEN NpRaised("TypeError: data type not understood")
    ELSE FromString(StripNewlines(am), NumpyDtypes[am_dtype_dict[hd.data_type]])

NpBinaryRaw(am, hd) ==
    IF hd.data_type # "byte" THEN NpRaised("NotImplementedError")
    ELSE FromString(StripNewlines(am), Uint8)

NpBinaryRle(am, hd, g) ==
    LET dims == hd.array_dimensions
        size == dims.z_dimension * dims.y_dimension * dims.x_dimension
        data_rle == StripNewlines(am)
    IN  IF hd.encoding \notin DOMAIN RleDescriptors THEN NpRaised("AssertionError")
        ELSE IF Len(data_rle) # RleDescriptors[hd.encoding]
        THEN NpRaised("AssertionError")
        ELSE IF hd.data_type # "byte" THEN NpRaised("AssertionError")
        ELSE LET st == RleRun(data_rle, size,
                              [rval |-> [i \in 1..size |-> g], bytes_read |-> 0,
                               filepos |-> 0, pc |-> "loop", exc |-> "none"])
             IN  IF st.pc = "raised" THEN NpRaised(st.exc)
                 ELSE FromString(st.rval, Uint8)

NpAscii(am, hd) ==
    IF hd.encoding # "raw" THEN NpRaised("AssertionError")
    ELSE LET string_list == DropLastTwo(SplitOnSpace(DeleteNewlines(am)))
         IN  IF hd.data_type \notin DOMAIN am_dtype_dict THEN NpRaised("KeyError")
             ELSE IF am_dtype_dict[hd.data_type] \notin DOMAIN NumpyDtypes
             THEN NpRaised("TypeError: data type not understood")
             ELSE IF \E i \in 1..Len(string_list) : ~IsNumber(string_list[i])
             THEN NpRaised("ValueError")
             ELSE NpOk([i \in 1..Len(string_list) |-> Decimal(string_list[i])])

IsRleCall(hd) == hd.data_format = "BINARY" /\ hd.encoding # "raw"

NpValues(am, hd, g) ==
    IF hd.data_format = "BINARY-LITTLE-ENDIAN" THEN NpLittleEndian(am, hd)
    ELSE IF hd.data_format = "BINARY"
    THEN IF hd.encoding = "raw" THEN NpBinaryRaw(am, hd) ELSE NpBinaryRle(am, hd, g)
    ELSE IF hd.data_format = "ASCII" THEN NpAscii(am, hd)
    ELSE NpRaised("NotImplementedError")

(* flt_values.resize(Zdim, Ydim, Xdim): in place, cut to the new size or   *)
(* filled up with zeros, never an error; then output[k][j][i].             *)
Resize(values, zdim, ydim, xdim) ==
    [k \in 1..zdim |-> [j \in 1..ydim |-> [i \in 1..xdim |->
        LET n == (k - 1) * ydim * xdim + (j - 1) * xdim + i
        IN  IF n <= Len(values) THEN values[n] ELSE 0]]]

(* flt_values[::-1, ..., ...]                                               *)
FlipZ(arr) == [k \in 1..Len(arr) |-> arr[Len(arr) + 1 - k]]

NumpyInit ==
    /\ call = "_amira_data_to_numpy"
    /\ payload \in SeqsUpTo(PayloadBytes, MaxPayload)
    /\ header_dict \in
           [array_dimensions : [x_dimension : 1..MaxDim, y_dimension : 1..MaxDim,
                                z_dimension : 1..MaxDim],
            data_format : DataFormats,
            data_type : DataTypes,
            encoding : Encodings]
    /\ flip_z \in BOOLEAN
    /\ flt_values = << >>
    /\ output = << >>
    /\ np_pc = "call"
    /\ np_exc = "none"
    /\ RleIdle /\ ReadIdle /\ MdIdle

NumpyFinish(r) ==
    LET dims == header_dict.array_dimensions
        arr == Resize(r.values, dims.z_dimension, dims.y_dimension, dims.x_dimension)
    IN  /\ np_exc' = r.exc
        /\ flt_values' = r.values
        /\ IF r.pc = "raised"
           THEN np_pc' = "raised" /\ output' = << >>
           ELSE np_pc' = "returned" /\ output' = IF flip_z = TRUE THEN FlipZ(arr) ELSE arr
        /\ UNCHANGED <<call, payload, header_dict, flip_z, rleVars, readVars, mdVars>>

(* The call on a path that does not decompress.                            *)
NumpyDecode ==
    /\ call = "_amira_data_to_numpy"
    /\ np_pc = "call"
    /\ ~IsRleCall(header_dict)
    /\ NumpyFinish(NpValues(payload, header_dict, 0))

(* The call on the BINARY path with an RLE descriptor.                     *)
NumpyDecodeRle ==
    /\ call = "_amira_data_to_numpy"
    /\ np_pc = "call"
    /\ IsRleCall(header_dict)
    /\ \E g \in Garbage : NumpyFinish(NpValues(payload, header_dict, g))

NumpyNext == NumpyDecode \/ NumpyDecodeRle

SpecNumpy == NumpyInit /\ [][NumpyNext]_vars

----------------------------------------------------------------------------
(* Any one of the four functions.                                          *)

Init == RleInit \/ ReadInit \/ MdInit \/ NumpyInit

Next == RleNext \/ ReadNext \/ MdNext \/ NumpyNext

Spec == Init /\ [][Next]_vars

----------------------------------------------------------------------------
(* The claims.                                                             *)

(* The packet grammar, read off the input alone: the packets of s from     *)
(* position pos (0-based) on, expanded after out until need bytes exist.   *)
(*   "ok"        need bytes are reached exactly at a packet boundary       *)
(*   "overrun"   a packet expands past need                                *)
(*   "zero"      a control byte is 0                                       *)
(*   "truncated" a control byte, a repeat value or part of a literal run   *)
(*               lies beyond the end of the input                          *)
RECURSIVE Packets(_, _, _, _)
Packets(s, pos, out, need) ==
    IF Len(out) = need THEN [kind |-> "ok", out |-> out]
    ELSE IF Len(out) > need THEN [kind |-> "overrun", out |-> << >>]
    ELSE IF pos >= Len(s) THEN [kind |-> "truncated", out |-> << >>]
    ELSE LET x == s[pos + 1] IN
         IF x = 0 THEN [kind |-> "zero", out |-> << >>]
         ELSE IF x > 127
         THEN IF pos + 1 + (x - 128) > Len(s)
              THEN [kind |-> "truncated", out |-> << >>]
              ELSE Packets(s, pos + 1 + (x - 128),
                           out \o SubSeq(s, pos + 2, pos + 1 + (x - 128)), need)
         ELSE IF pos + 2 > Len(s)
              THEN [kind |-> "truncated", out |-> << >>]
              ELSE Packets(s, pos + 2, out \o [i \in 1..x |-> s[pos + 2]], need)

RleEnded == rle_pc \in {"returned", "raised"}

(* C1: when the packets of the input expand to exactly uncompressed_size   *)
(* bytes at a packet boundary, decode_rle returns, and what it returns is  *)
(* the concatenation of the packet expansions (x copies of v for a control *)
(* byte x in 1..127, the next x & 0x7f bytes for x > 127), whatever bytes  *)
(* follow the last packet it needed.                                       *)
C1_PacketSemantics ==
    (RleEnded /\ Packets(d, 0, << >>, uncompressed_size).kind = "ok")
        => /\ rle_pc = "returned"
           /\ Len(rval) = uncompressed_size
           /\ rval = Packets(d, 0, << >>, uncompressed_size).out

(* A return after a repeat packet followed by a literal packet.            *)
C1_Witness ==
    /\ rle_pc = "returned"
    /\ uncompressed_size = 3
    /\ Len(d) = 4
    /\ d[1] = 2
    /\ d[3] = 129
    /\ filepos = 4
    /\ Packets(d, 0, << >>, uncompressed_size).kind = "ok"

(* C8: a 0x00 read at a control-byte position, while fewer than            *)
(* uncompressed_size bytes have been produced, makes decode_rle raise its  *)
(* "x is 0" ValueError; nothing is returned.                               *)
C8_ZeroControlRejected ==
    [][(/\ rle_pc = "loop"
        /\ bytes_read < uncompressed_size
        /\ filepos < Len(d)
        /\ d[filepos + 1] = 0)
       => (rle_pc' = "raised" /\ rle_exc' = "ValueError: x is 0")]_vars

(* The zero control byte is met after a packet has been decoded.           *)
C8_Witness ==
    /\ rle_pc = "raised"
    /\ rle_exc = "ValueError: x is 0"
    /\ bytes_read > 0
    /\ filepos > 0
    /\ d[filepos + 1] = 0

(* C9: an input that is exhausted before uncompressed_size bytes have been *)
(* produced (a missing control byte, a repeat packet without its value, a  *)
(* literal packet declaring more bytes than remain) ends in an error: it   *)
(* is never answered with a returned buffer.                               *)
C9_TruncatedIsError ==
    rle_pc = "returned"
        => Packets(d, 0, << >>, uncompressed_size).kind # "truncated"

(* C2: when the end of the file is reached and no line of the file is the  *)
(* sentinel, _read_amira ends in an error.  The first readline() at the    *)
(* end of the file puts "" in the header: from there on the read is in an  *)
(* error state, and never returns a header and a payload.                  *)
C2_MissingSentinelFails ==
    (/\ call = "_read_amira"
     /\ \A i \in 1..Len(input_file) : input_file[i] # Sentinel
     /\ \E i \in 1..Len(am_header) : am_header[i] = Eof)
        => read_pc = "raised"

NumpyElements == header_dict.array_dimensions.z_dimension
                     * header_dict.array_dimensions.y_dimension
                     * header_dict.array_dimensions.x_dimension

(* C4: a payload that decodes to a number of values other than             *)
(* x_dimension * y_dimension * z_dimension is answered with an error: an   *)
(* array is returned only when the count is the declared one.              *)
C4_ShapeCheck ==
    np_pc = "returned" => Len(flt_values) = NumpyElements

(* The sizes of the data types, as the format declares them.               *)
DeclaredItemSize == ("float" :> 4) @@ ("byte" :> 1)

(* Value number n (from 0) of a payload of items of the given size.        *)
PayloadValue(size, kind, n) ==
    DecodeValue([itemsize |-> size, kind |-> kind],
                SubSeq(payload, n * size + 1, (n + 1) * size))

(* C5: in the BINARY-LITTLE-ENDIAN path with raw encoding, a payload that  *)
(* holds exactly x*y*z values of the declared type, whatever its bytes,    *)
(* decodes to the array of shape (z, y, x) whose element [k][j][i] is      *)
(* value number k*y*x + j*x + i of the payload, reversed along axis 0 when *)
(* flip_z is true.  Stated for the float and byte types.                   *)
C5_PositionalDecoding ==
    (/\ np_pc \in {"returned", "raised"}
     /\ header_dict.data_format = "BINARY-LITTLE-ENDIAN"
     /\ header_dict.encoding = "raw"
     /\ header_dict.data_type \in DOMAIN DeclaredItemSize
     /\ Len(payload) = NumpyElements * DeclaredItemSize[header_dict.data_type])
        => LET dims == header_dict.array_dimensions
               zdim == dims.z_dimension
               ydim == dims.y_dimension
               xdim == dims.x_dimension
               kind == NumpyDtypes[am_dtype_dict[header_dict.data_type]].kind
               at(k, j, i) ==
                   PayloadValue(DeclaredItemSize[header_dict.data_type], kind,
                                (k - 1) * ydim * xdim + (j - 1) * xdim + (i - 1))
           IN  /\ np_pc = "returned"
               /\ Len(output) = zdim
               /\ \A k \in 1..zdim :
                      /\ Len(output[k]) = ydim
                      /\ \A j \in 1..ydim :
                             /\ Len(output[k][j]) = xdim
                             /\ \A i \in 1..xdim :
                                    output[k][j][i] =
                                        at(IF flip_z THEN zdim + 1 - k ELSE k, j, i)

(* C6: in the BINARY-LITTLE-ENDIAN path with data_type byte, every byte b  *)
(* of the payload decodes to the integer b, in 0..255.                     *)
C6_ByteIsUnsigned ==
    (/\ np_pc = "returned"
     /\ header_dict.data_format = "BINARY-LITTLE-ENDIAN"
     /\ header_dict.data_type = "byte")
        => flt_values = StripNewlines(payload)

(* The directives of a header line: the keywords the if/elif chain tests,  *)
(* by containment, and Lattice as the first token.                         *)
ContainedKeywords ==
    {"define", "Content", "CoordType", "BoundingBox", "Units", "Coordinates"}

Directives(line) ==
    {kw \in ContainedKeywords : Has(line, kw)}
        \cup (IF Len(line) >= 1 /\ line[1] = "Lattice" THEN {"Lattice"} ELSE {})

TailOf(header) == SubSeq(header, 2, Len(header))

MdEnded == md_pc \in {"returned", "raised"}

(* C3: a header with no line holding the token Units yields a record whose *)
(* units field is "pixels".                                                *)
C3_UnitsDefault ==
    (md_pc = "returned" /\ \A i \in 1..Len(clean_header) : ~Has(clean_header[i], "Units"))
        => ("units" \in DOMAIN md_dict /\ md_dict["units"] = "pixels")

(* The line the for loop is about to process is handled by the BoundingBox *)
(* branch, its six values parse, and the dimensions are in the record,     *)
(* each at least 1.                                                        *)
AtBoundingBox ==
    /\ md_pc = "loop"
    /\ line_no < Len(clean_header)
    /\ LET line == clean_header[line_no + 1] IN
       /\ Has(line, "BoundingBox")
       /\ ~Has(line, "define") /\ ~Has(line, "Content") /\ ~Has(line, "CoordType")
       /\ LET at == Index(line, "BoundingBox") IN
          ParseError(line, <<at + 1, at + 2, at + 3, at + 4, at + 5, at + 6>>,
                     FloatTable) = "none"
    /\ "array_dimensions" \in DOMAIN md_dict
    /\ md_dict["array_dimensions"].x_dimension >= 1
    /\ md_dict["array_dimensions"].y_dimension >= 1
    /\ md_dict["array_dimensions"].z_dimension >= 1

(* a / b lies in [0.99, 1.01], both ends included, for fractions a, b # 0. *)
InBandInclusive(a, b) ==
    LET n == a[1] * b[2]
        m == a[2] * b[1]
    IN  IF m > 0 THEN 99 * m <= 100 * n /\ 100 * n <= 101 * m
                 ELSE 99 * m >= 100 * n /\ 100 * n >= 101 * m

(* The resolution the claim describes for the line at hand.                *)
ClaimedResolution ==
    LET line == clean_header[line_no + 1]
        at == Index(line, "BoundingBox")
        v(k) == FloatTable[line[at + 1 + k]]
        dims == md_dict["array_dimensions"]
        sx == IF dims.x_dimension > 1 THEN <<v(2) - v(1), dims.x_dimension - 1>> ELSE <<0, 1>>
        sy == IF dims.y_dimension > 1 THEN <<v(4) - v(3), dims.y_dimension - 1>> ELSE <<0, 1>>
        sz == IF dims.z_dimension > 1 THEN <<v(6) - v(5), dims.z_dimension - 1>> ELSE <<0, 1>>
    IN  [defined |-> sx[1] # 0,
         value |-> IF sx[1] # 0 /\ InBandInclusive(sy, sx) /\ InBandInclusive(sz, sx)
                   THEN [zyx_value |-> <<sx>>, type |-> "isotropic"]
                   ELSE [zyx_value |-> <<sz, sy, sx>>, type |-> "anisotropic"]]

(* C7: processing a BoundingBox line with the dimensions populated stores  *)
(* a resolution, for every dimension triple (each >= 1) and bounding box:  *)
(* spacing (max - min)/(dim - 1) for dim > 1 and 0 for dim = 1, isotropic  *)
(* with the x spacing exactly when spacing_y/spacing_x and                 *)
(* spacing_z/spacing_x lie in [0.99, 1.01] inclusive, and otherwise        *)
(* anisotropic with (spacing_z, spacing_y, spacing_x).  Where the x        *)
(* spacing is 0 the ratios are undefined and only the storing is asked.    *)
C7_ResolutionDerivation ==
    [][AtBoundingBox =>
        /\ md_pc' = "loop"
        /\ "resolution" \in DOMAIN md_dict'
        /\ ClaimedResolution.defined => md_dict'["resolution"] = ClaimedResolution.value
      ]_vars

(* Each directive is on at most one line, each line holds at most one.     *)
OneDirectivePerLine(tail) ==
    /\ \A i \in 1..Len(tail) : Cardinality(Directives(tail[i])) <= 1
    /\ \A i, j \in 1..Len(tail) :
           i # j => Directives(tail[i]) \cap Directives(tail[j]) = {}

DefineBeforeBoundingBox(tail) ==
    \A i, j \in 1..Len(tail) :
        ("define" \in Directives(tail[i]) /\ "BoundingBox" \in Directives(tail[j]))
            => i < j

Orderings(n) == {p \in [1..n -> 1..n] : \A i, j \in 1..n : p[i] = p[j] => i = j}

Reordered(header, p) ==
    <<header[1]>> \o [i \in 1..(Len(header) - 1) |-> header[p[i] + 1]]

(* C10: for a header whose lines after the first hold each directive at    *)
(* most once, one per line, every reordering of those lines that keeps the *)
(* define line before the BoundingBox line gives the outcome of this one:  *)
(* the same metadata record, or an exception where this one raised.        *)
C10_OrderIndependence ==
    (/\ MdEnded
     /\ Len(clean_header) >= 1
     /\ OneDirectivePerLine(TailOf(clean_header))
     /\ DefineBeforeBoundingBox(TailOf(clean_header)))
        => \A p \in Orderings(Len(clean_header) - 1) :
               LET other == Reordered(clean_header, p)
                   r == CreateMdDict(other)
               IN  DefineBeforeBoundingBox(TailOf(other))
                       => /\ r.pc = md_pc
                          /\ md_pc = "returned" => r.md = md_dict

(* A record returned for a header whose Units line comes before its define *)
(* line and its BoundingBox line.                                          *)
C10_Witness ==
    /\ md_pc = "returned"
    /\ Len(clean_header) = 4
    /\ OneDirectivePerLine(TailOf(clean_header))
    /\ Directives(clean_header[2]) = {"Units"}
    /\ Directives(clean_header[3]) = {"define"}
    /\ Directives(clean_header[4]) = {"BoundingBox"}
    /\ "resolution" \in DOMAIN md_dict
    /\ "units" \in DOMAIN md_dict

====
